---------------------------- MODULE Spec2Model ----------------------------
(***************************************************************************)
(* Model of pytorch_lightning/utilities/grads.py: grad_norm(module,        *)
(* norm_type), the per-parameter and total gradient norm report.           *)
(*                                                                         *)
(* Floating-point numbers are records [k, s, m]: k is "fin", "inf" or      *)
(* "nan", s is the sign bit and m the magnitude in units of 1/Unit, one    *)
(* decimal place finer than the four that round(v, 4) keeps.  The tensor   *)
(* library's p-norm is modelled for the orders 0, 1, 2, inf and -inf (the  *)
(* special cases of the norm kernel) and for NaN.  No gradient element is  *)
(* 1 or -1, the one magnitude whose power under a NaN order is not NaN.    *)
(***************************************************************************)
EXTENDS Integers, Sequences, FiniteSets, TLC

(***************************************************************************)
(* Bounds and constants                                                    *)
(***************************************************************************)

\* Largest number of elements of one parameter tensor.
MaxLen == 3

\* Fixed-point resolution of a modelled float: 1.0 is Unit units.
Unit == 100000

\* round(v, 4): the number of decimal places kept.
Digits == 4

\* The values a gradient element takes (in whole units of 1.0).
GradVals == {-3, 0, 4}

\* The names named_parameters() may yield, in definition order.
ParamNames == <<"weight", "bias", "total">>

(***************************************************************************)
(* Floats                                                                  *)
(***************************************************************************)

Fin(s, m) == [k |-> "fin", s |-> s, m |-> m]

Inf(s) == [k |-> "inf", s |-> s, m |-> 0]

NaN == [k |-> "nan", s |-> 0, m |-> 0]

(***************************************************************************)
(* float(norm_type): int, float, str and None arguments                    *)
(***************************************************************************)

DigitChars == "0123456789"

UpperChars == "ABCDEFGHIJKLMNOPQRSTUVWXYZ"

LowerChars == "abcdefghijklmnopqrstuvwxyz"

CharAt(str, i) == SubSeq(str, i, i)

IsSpace(c) == c = " "

IsDigit(c) == \E i \in 1..10 : CharAt(DigitChars, i) = c

DigitVal(c) == (CHOOSE i \in 1..10 : CharAt(DigitChars, i) = c) - 1

LowerChar(c) ==
    IF \E i \in 1..26 : CharAt(UpperChars, i) = c
    THEN CharAt(LowerChars, CHOOSE i \in 1..26 : CharAt(UpperChars, i) = c)
    ELSE c

RECURSIVE Lower(_)
Lower(str) ==
    IF Len(str) = 0 THEN ""
    ELSE LowerChar(CharAt(str, 1)) \o Lower(Tail(str))

RECURSIVE LStrip(_)
LStrip(str) ==
    IF Len(str) > 0 /\ IsSpace(CharAt(str, 1)) THEN LStrip(Tail(str)) ELSE str

RECURSIVE RStrip(_)
RStrip(str) ==
    IF Len(str) > 0 /\ IsSpace(CharAt(str, Len(str)))
    THEN RStrip(SubSeq(str, 1, Len(str) - 1))
    ELSE str

Strip(str) == RStrip(LStrip(str))

AllDigits(str) == \A i \in 1..Len(str) : IsDigit(CharAt(str, i))

\* The value of a digit string as an integer.
RECURSIVE IntOfDigits(_)
IntOfDigits(str) ==
    IF Len(str) = 0 THEN 0
    ELSE 10 * IntOfDigits(SubSeq(str, 1, Len(str) - 1))
         + DigitVal(CharAt(str, Len(str)))

\* The value of the digits after the point, in units of 1/Unit; scale is
\* the weight of the first digit.
RECURSIVE FracOfDigits(_, _)
FracOfDigits(str, scale) ==
    IF Len(str) = 0 \/ scale = 0 THEN 0
    ELSE DigitVal(CharAt(str, 1)) * scale
         + FracOfDigits(Tail(str), scale \div 10)

PointAt(str) ==
    IF \E i \in 1..Len(str) : CharAt(str, i) = "."
    THEN CHOOSE i \in 1..Len(str) :
            /\ CharAt(str, i) = "."
            /\ \A j \in 1..(i - 1) : CharAt(str, j) # "."
    ELSE 0

\* A decimal numeral without exponent: digits, digits., .digits or
\* digits.digits.
IsDecimal(str) ==
    LET p == PointAt(str)
        ip == IF p = 0 THEN str ELSE SubSeq(str, 1, p - 1)
        fp == IF p = 0 THEN "" ELSE SubSeq(str, p + 1, Len(str))
    IN  /\ AllDigits(ip) /\ AllDigits(fp)
        /\ Len(ip) + Len(fp) > 0

DecimalMag(str) ==
    LET p == PointAt(str)
        ip == IF p = 0 THEN str ELSE SubSeq(str, 1, p - 1)
        fp == IF p = 0 THEN "" ELSE SubSeq(str, p + 1, Len(str))
    IN  IntOfDigits(ip) * Unit + FracOfDigits(fp, Unit \div 10)

Ok(f) == [ok |-> TRUE, val |-> f, exc |-> ""]

Raise(e) == [ok |-> FALSE, val |-> NaN, exc |-> e]

\* float(str): surrounding whitespace and a sign are allowed; the body is
\* "inf", "infinity", "nan" (in any case) or a decimal numeral.
FloatOfStr(str) ==
    LET t == Strip(str)
        signed == Len(t) > 0 /\ CharAt(t, 1) \in {"+", "-"}
        s == IF signed /\ CharAt(t, 1) = "-" THEN 1 ELSE 0
        body == IF signed THEN Tail(t) ELSE t
        low == Lower(body)
    IN  IF low \in {"inf", "infinity"} THEN Ok(Inf(s))
        ELSE IF low = "nan" THEN Ok(NaN)
        ELSE IF IsDecimal(body) THEN Ok(Fin(s, DecimalMag(body)))
        ELSE Raise("ValueError")

\* float(norm_type), line 37.
ToFloat(x) ==
    CASE x.ty = "int" -> Ok(Fin(IF x.i < 0 THEN 1 ELSE 0,
                                (IF x.i < 0 THEN 0 - x.i ELSE x.i) * Unit))
      [] x.ty = "float" -> Ok(x.f)
      [] x.ty = "str" -> FloatOfStr(x.str)
      [] OTHER -> Raise("TypeError")

(***************************************************************************)
(* str(float), as the f-string of the labels renders it                    *)
(***************************************************************************)

RECURSIVE IntToStr(_)
IntToStr(n) ==
    IF n < 10 THEN CharAt(DigitChars, n + 1)
    ELSE IntToStr(n \div 10) \o CharAt(DigitChars, (n % 10) + 1)

\* The digits of a fraction fr (in units of 1/scale/10), shortest form.
RECURSIVE FracToStr(_, _)
FracToStr(fr, scale) ==
    IF fr = 0 \/ scale = 0 THEN ""
    ELSE CharAt(DigitChars, (fr \div scale) + 1)
         \o FracToStr(fr % scale, scale \div 10)

FloatToStr(f) ==
    LET sign == IF f.s = 1 THEN "-" ELSE ""
        fr == f.m % Unit
    IN  CASE f.k = "nan" -> "nan"
          [] f.k = "inf" -> sign \o "inf"
          [] OTHER -> sign \o IntToStr(f.m \div Unit) \o "."
                      \o (IF fr = 0 THEN "0" ELSE FracToStr(fr, Unit \div 10))

(***************************************************************************)
(* Tensor.norm(p): the p-norm of a vector of floats                        *)
(***************************************************************************)

Abs(n) == IF n < 0 THEN -n ELSE n

\* A gradient element (a whole number of units) as a float.
FloatOfInt(n) == Fin(IF n < 0 THEN 1 ELSE 0, Abs(n) * Unit)

\* m * m as <<high, low>>, the value being high * 10^6 + low.
Square(m) ==
    LET a == m \div 1000
        b == m % 1000
        ab2 == 2 * a * b
        lo == (ab2 % 1000) * 1000 + b * b
    IN  <<a * a + (ab2 \div 1000) + (lo \div 1000000), lo % 1000000>>

\* The sum of the squares of the magnitudes ms[i..], as <<high, low>>.
RECURSIVE SumSquares(_, _)
SumSquares(ms, i) ==
    IF i > Len(ms) THEN <<0, 0>>
    ELSE LET sq == Square(ms[i])
             rest == SumSquares(ms, i + 1)
             lo == sq[2] + rest[2]
         IN  <<sq[1] + rest[1] + (lo \div 1000000), lo % 1000000>>

\* The base-100 digits of n, most significant first.
RECURSIVE Pairs(_)
Pairs(n) == IF n = 0 THEN <<>> ELSE Append(Pairs(n \div 100), n % 100)

\* Digit-by-digit square root: <<root, remainder>> after the pairs ps[i..]
\* are brought down.
RECURSIVE SqrtDigits(_, _, _, _)
SqrtDigits(ps, i, root, rem) ==
    IF i > Len(ps) THEN <<root, rem>>
    ELSE LET cur == rem * 100 + ps[i]
             d == CHOOSE x \in 0..9 :
                     /\ (20 * root + x) * x <= cur
                     /\ (x = 9 \/ (20 * root + x + 1) * (x + 1) > cur)
         IN  SqrtDigits(ps, i + 1, 10 * root + d, cur - (20 * root + d) * d)

\* sqrt(high * 10^6 + low), rounded to the nearest unit.
SqrtHL(hl) ==
    LET ps == Pairs(hl[1]) \o <<hl[2] \div 10000, (hl[2] \div 100) % 100, hl[2] % 100>>
        r == SqrtDigits(ps, 1, 0, 0)
    IN  IF r[2] > r[1] THEN r[1] + 1 ELSE r[1]

RECURSIVE SumMag(_, _)
SumMag(ms, i) == IF i > Len(ms) THEN 0 ELSE ms[i] + SumMag(ms, i + 1)

RECURSIVE CountNonZero(_, _)
CountNonZero(ms, i) ==
    IF i > Len(ms) THEN 0
    ELSE (IF ms[i] # 0 THEN 1 ELSE 0) + CountNonZero(ms, i + 1)

MaxMag(ms) == CHOOSE x \in {ms[i] : i \in DOMAIN ms} :
                 \A j \in DOMAIN ms : ms[j] <= x

MinMag(ms) == CHOOSE x \in {ms[i] : i \in DOMAIN ms} :
                 \A j \in DOMAIN ms : ms[j] >= x

\* xs.norm(p) for a non-empty vector xs of floats.  A NaN order, or a NaN
\* element, gives NaN; the orders 0 (of either sign), 1, 2, inf and -inf
\* are the kernel's special cases.
PNorm(p, xs) ==
    LET ms == [i \in DOMAIN xs |-> xs[i].m]
    IN  CASE p.k = "nan" \/ (\E i \in DOMAIN xs : xs[i].k = "nan") -> NaN
          [] p.k = "fin" /\ p.m = 0 -> Fin(0, CountNonZero(ms, 1) * Unit)
          [] p.k = "fin" /\ p.s = 0 /\ p.m = Unit -> Fin(0, SumMag(ms, 1))
          [] p.k = "fin" /\ p.s = 0 /\ p.m = 2 * Unit ->
                Fin(0, SqrtHL(SumSquares(ms, 1)))
          [] p.k = "inf" /\ p.s = 0 -> Fin(0, MaxMag(ms))
          [] p.k = "inf" /\ p.s = 1 -> Fin(0, MinMag(ms))

RECURSIVE Pow10(_)
Pow10(n) == IF n = 0 THEN 1 ELSE 10 * Pow10(n - 1)

\* A round that leaves its argument as it is.
RoundNone(v, ndigits) == v

\* round(v, ndigits): to the nearest multiple of 10^-ndigits, a tie going
\* to the even one; NaN and the infinities are returned as they are.
Round(v, ndigits) ==
    LET q == Unit \div Pow10(ndigits)
        lo == (v.m \div q) * q
        r == v.m - lo
        up == 2 * r > q \/ (2 * r = q /\ (v.m \div q) % 2 = 1)
    IN  IF v.k # "fin" THEN v
        ELSE Fin(v.s, IF up THEN lo + q ELSE lo)

(***************************************************************************)
(* The module and the values passed to and returned by grad_norm           *)
(***************************************************************************)

\* module: the module's parameters, name |-> [numel, grad]; grad is NoGrad
\*         while p.grad is None, else the gradient's elements.
\* returned: the outcome of the call just made, NoCall after any other step.
\* arg: the norm_type that call was given, NoArg after any other step.
\* again: the call just made followed another call, the gradients unchanged
\*        in between.
VARIABLES module, returned, arg, again

vars == <<module, returned, arg, again>>

NoGrad == <<>>

Tensors(n) == [1..n -> GradVals]

IntArg(n) == [ty |-> "int", i |-> n, f |-> NaN, str |-> ""]

FloatArg(x) == [ty |-> "float", i |-> 0, f |-> x, str |-> ""]

StrArg(t) == [ty |-> "str", i |-> 0, f |-> NaN, str |-> t]

NoneArg == [ty |-> "NoneType", i |-> 0, f |-> NaN, str |-> ""]

NoArg == [ty |-> "", i |-> 0, f |-> NaN, str |-> ""]

\* The norm_type arguments of the model: Union[float, int, str], and None.
NormTypes ==
    {IntArg(0), IntArg(2), FloatArg(Fin(0, 2 * Unit)), FloatArg(NaN),
     StrArg("2"), StrArg(" 1.0"), StrArg("inf"), StrArg("-Infinity"),
     StrArg("-0"), StrArg("norm"), NoneArg}

NoCall == [kind |-> "none", exc |-> "", report |-> <<>>, read |-> <<>>]

\* A call that returned its report, having read the gradients of `read`.
Returned(report, read) ==
    [kind |-> "return", exc |-> "", report |-> report, read |-> read]

\* A call that raised exc.
Raised(exc, read) ==
    [kind |-> "raise", exc |-> exc, report |-> <<>>, read |-> read]

(***************************************************************************)
(* dict: the items in insertion order                                      *)
(***************************************************************************)

Keys(d) == [i \in DOMAIN d |-> d[i].key]

Values(d) == [i \in DOMAIN d |-> d[i].val]

HasKey(d, k) == \E i \in DOMAIN d : d[i].key = k

\* d[k], for a key d holds.
Get(d, k) == d[CHOOSE i \in DOMAIN d : d[i].key = k].val

\* d[k] = v: an existing key keeps its place and takes the new value.
DictSet(d, k, v) ==
    IF HasKey(d, k)
    THEN [i \in DOMAIN d |-> IF d[i].key = k THEN [key |-> k, val |-> v] ELSE d[i]]
    ELSE Append(d, [key |-> k, val |-> v])

(***************************************************************************)
(* grad_norm                                                               *)
(***************************************************************************)

\* module.named_parameters(): the names of the module's parameters, in
\* definition order.
RECURSIVE NamedParametersFrom(_, _)
NamedParametersFrom(m, i) ==
    IF i > Len(ParamNames) THEN <<>>
    ELSE (IF ParamNames[i] \in DOMAIN m THEN <<ParamNames[i]>> ELSE <<>>)
         \o NamedParametersFrom(m, i + 1)

NamedParameters(m) == NamedParametersFrom(m, 1)

\* A label that renders the order as an integer when it is one.
LabelOfInt(f, name) ==
    "grad_"
    \o (IF f.k = "fin" /\ f.m % Unit = 0
        THEN (IF f.s = 1 THEN "-" ELSE "") \o IntToStr(f.m \div Unit)
        ELSE FloatToStr(f))
    \o "_norm_" \o name

\* f"grad_{norm_type}_norm_{name}"
Label(f, name) == "grad_" \o FloatToStr(f) \o "_norm_" \o name

\* p.grad.data.norm(norm_type).item()
GradNorm1(f, grad) == PNorm(f, [i \in DOMAIN grad |-> FloatOfInt(grad[i])])

\* The dict comprehension over the first k names of ns: one item for each
\* parameter whose grad is not None.
RECURSIVE Collect(_, _, _, _)
Collect(m, f, ns, k) ==
    IF k = 0 THEN <<>>
    ELSE LET d == Collect(m, f, ns, k - 1)
             name == ns[k]
         IN  IF m[name].grad # NoGrad
             THEN DictSet(d, Label(f, name), GradNorm1(f, m[name].grad))
             ELSE d

CollectNorms(m, f) == Collect(m, f, NamedParameters(m), Len(NamedParameters(m)))

\* if norms:
Truthy(norms) == norms # <<>>

\* A total taken over the norms as they are reported, rounded.
TotalNormOfRounded(f, norms) ==
    PNorm(f, [i \in DOMAIN norms |-> Round(norms[i].val, Digits)])

\* torch.tensor(list(norms.values())).norm(norm_type).item()
TotalNorm(f, norms) == PNorm(f, Values(norms))

\* {k: round(v, 4) for k, v in norms.items()}
RoundAll(norms) ==
    [i \in DOMAIN norms |->
        [key |-> norms[i].key, val |-> Round(norms[i].val, Digits)]]

\* A report that adds the total entry even to an empty dict.
ReportAlwaysTotal(m, f) ==
    LET norms == CollectNorms(m, f)
        total == IF norms = <<>> THEN Fin(0, 0) ELSE TotalNorm(f, norms)
    IN  RoundAll(DictSet(norms, Label(f, "total"), total))

\* A report built in a dict that outlives the call: it starts from the
\* items the previous call left.
ReportPersisted(m, f) ==
    LET ns == NamedParameters(m)
        kept == [i \in DOMAIN returned.report |-> returned.report[i]]
        fresh == CollectNorms(m, f)
        Merge[k \in 0..Len(fresh)] ==
            IF k = 0 THEN kept
            ELSE DictSet(Merge[k - 1], fresh[k].key, fresh[k].val)
        norms == Merge[Len(fresh)]
    IN  IF Truthy(norms)
        THEN RoundAll(DictSet(norms, Label(f, "total"), TotalNorm(f, norms)))
        ELSE norms

\* The body of grad_norm after the cast: the dict it returns for the float
\* order f.
Report(m, f) ==
    LET norms == CollectNorms(m, f)
    IN  IF Truthy(norms)
        THEN RoundAll(DictSet(norms, Label(f, "total"), TotalNorm(f, norms)))
        ELSE norms

\* A grad_norm that answers an unconvertible norm_type with an empty report.
grad_norm_swallow(m, norm_type) ==
    LET c == ToFloat(norm_type)
    IN  IF c.ok
        THEN Returned(Report(m, c.val), NamedParameters(m))
        ELSE Returned(<<>>, <<>>)

\* grad_norm(module, norm_type): what the call returns or raises.
grad_norm(m, norm_type) ==
    LET c == ToFloat(norm_type)
    IN  IF c.ok
        THEN Returned(Report(m, c.val), NamedParameters(m))
        ELSE Raised(c.exc, <<>>)

(***************************************************************************)
(* Steps                                                                   *)
(***************************************************************************)

\* The most elements the parameter called name has: "weight" is a tensor
\* of up to MaxLen elements, the others are scalars.
MaxNumel(name) == IF name = "weight" THEN MaxLen ELSE 1

\* A module: some of the names, each with its number of elements, no
\* gradient computed yet.
Modules ==
    {m \in UNION {[S -> [numel : 1..MaxLen, grad : {NoGrad}]] :
                     S \in SUBSET {ParamNames[i] : i \in DOMAIN ParamNames}} :
        \A name \in DOMAIN m : m[name].numel <= MaxNumel(name)}

Init ==
    /\ module \in Modules
    /\ returned = NoCall
    /\ arg = NoArg
    /\ again = FALSE

\* The caller's backward pass or optimizer sets or changes p.grad.
Backward(name, g) ==
    /\ name \in DOMAIN module
    /\ Len(g) = module[name].numel
    /\ module' = [module EXCEPT ![name].grad = g]
    /\ returned' = NoCall
    /\ arg' = NoArg
    /\ again' = FALSE

\* The caller removes a gradient (p.grad = None).
ZeroGrad(name) ==
    /\ name \in DOMAIN module
    /\ module[name].grad # NoGrad
    /\ module' = [module EXCEPT ![name].grad = NoGrad]
    /\ returned' = NoCall
    /\ arg' = NoArg
    /\ again' = FALSE

\* A call that clears the gradients it has read.
GradNormZeroGrad(norm_type) ==
    /\ returned' = grad_norm(module, norm_type)
    /\ arg' = norm_type
    /\ again' = (arg # NoArg)
    /\ module' = [name \in DOMAIN module |->
                     [module[name] EXCEPT !.grad = NoGrad]]

\* A call grad_norm(module, norm_type).
GradNorm(norm_type) ==
    /\ returned' = grad_norm(module, norm_type)
    /\ arg' = norm_type
    /\ again' = (arg # NoArg)
    /\ UNCHANGED module

Next ==
    \/ \E name \in DOMAIN module :
          \E g \in Tensors(module[name].numel) : Backward(name, g)
    \/ \E name \in DOMAIN module : ZeroGrad(name)
    \/ \E norm_type \in NormTypes : GradNorm(norm_type)

Spec == Init /\ [][Next]_vars

(***************************************************************************)
(* Vocabulary of the properties                                            *)
(***************************************************************************)

\* A call has just been made.
Called == arg # NoArg

\* The float the last call's norm_type converts to.
Order == ToFloat(arg).val

\* The names of the parameters that hold a gradient, in definition order.
GradBearing ==
    SelectSeq(NamedParameters(module), LAMBDA name : module[name].grad # NoGrad)

NGrad == Len(GradBearing)

\* Python's == on two floats: -0.0 == 0.0, and NaN equals nothing.
FloatEq(a, b) ==
    /\ a.k # "nan" /\ b.k # "nan"
    /\ a.k = b.k
    /\ a.m = b.m
    /\ (a.s = b.s \/ (a.k = "fin" /\ a.m = 0))

\* The label of a name under the order f, spelled out.
LabelText(f, name) == "grad_" \o FloatToStr(f) \o "_norm_" \o name

KeySet(d) == {d[i].key : i \in DOMAIN d}

\* The unrounded norm of each gradient-bearing parameter's own gradient.
OwnNorms == [i \in 1..NGrad |-> GradNorm1(Order, module[GradBearing[i]].grad)]

\* The raw gradient values of the gradient-bearing parameters names[i..],
\* concatenated.
RECURSIVE ConcatGrads(_, _)
ConcatGrads(names, i) ==
    IF i > Len(names) THEN <<>>
    ELSE [j \in DOMAIN module[names[i]].grad |->
             FloatOfInt(module[names[i]].grad[j])]
         \o ConcatGrads(names, i + 1)

\* One unit of the last decimal place a report keeps.
Quantum == Unit \div Pow10(Digits)

\* Two floats no further apart than one unit of the last reported place.
Close(a, b) ==
    /\ a.k = b.k
    /\ a.k = "fin" => (a.s = b.s /\ Abs(a.m - b.m) <= Quantum)

\* A non-negative real number with at most Digits decimal places.
IsRoundedReal(v) == v.k = "fin" /\ v.s = 0 /\ v.m % Quantum = 0

\* The module without the parameters whose gradient is absent.
OnlyGradBearing ==
    [name \in {n \in DOMAIN module : module[n].grad # NoGrad} |-> module[name]]

(***************************************************************************)
(* C1                                                                      *)
(***************************************************************************)

\* C1: with n >= 1 gradient-bearing parameters, whatever their names, the
\* report has exactly n + 1 entries: one per gradient-bearing parameter and
\* one total entry.
C1_ReportSize ==
    (Called /\ returned.kind = "return" /\ NGrad >= 1)
        => Len(returned.report) = NGrad + 1

\* Beside C1: when no parameter is named "total", the report does have
\* n + 1 entries.
ReportSizeWithoutTotalName ==
    "total" \notin DOMAIN module => C1_ReportSize

(***************************************************************************)
(* C2                                                                      *)
(***************************************************************************)

\* C2: when no parameter holds a gradient (also when the module has no
\* parameter), a call with an accepted norm order returns the empty report:
\* no entry, and no total entry, is made up.
C2_EmptyReport ==
    (Called /\ ToFloat(arg).ok /\ NGrad = 0)
        => (returned.kind = "return" /\ returned.report = <<>>)

\* A call returned for a module with two parameters, neither holding a
\* gradient.
C2_Witness ==
    /\ Called /\ ToFloat(arg).ok /\ NGrad = 0
    /\ Cardinality(DOMAIN module) >= 2
    /\ returned.kind = "return"

(***************************************************************************)
(* C3                                                                      *)
(***************************************************************************)

C4_TotalOfConcatenation ==
    (Called /\ returned.kind = "return" /\ NGrad >= 1)
        => /\ HasKey(returned.report, LabelText(Order, "total"))
           /\ Close(Get(returned.report, LabelText(Order, "total")),
                    Round(PNorm(Order, ConcatGrads(GradBearing, 1)), Digits))

\* Beside C4: at every order of the model but 0 and -0.0, the norm of the
\* norms and the norm of the concatenation agree to the last reported place.
TotalOfConcatenationUnlessZeroOrder ==
    (Order.k # "fin" \/ Order.m # 0) => C4_TotalOfConcatenation

(***************************************************************************)
(* C5                                                                      *)
(***************************************************************************)

\* C5: every parameter that holds a gradient has an entry under its own
\* label whose value is the p-norm of its own gradient, rounded to 4
\* decimal places; the parameters without a gradient change nothing in the
\* report.
C5_OwnEntries ==
    (Called /\ returned.kind = "return")
        => /\ \A i \in 1..NGrad :
                /\ HasKey(returned.report, LabelText(Order, GradBearing[i]))
                /\ Get(returned.report, LabelText(Order, GradBearing[i]))
                     = Round(OwnNorms[i], Digits)
           /\ returned.report = Report(OnlyGradBearing, Order)

\* Beside C5: when no parameter is named "total", every gradient-bearing
\* parameter has its own norm under its own label.
OwnEntriesWithoutTotalName ==
    "total" \notin DOMAIN module => C5_OwnEntries

(***************************************************************************)
(* C6                                                                      *)
(***************************************************************************)

\* The norm_type values of the model that are no number and no infinity
\* symbol.
Unconvertible == {StrArg("norm"), NoneArg}

\* C6, as claimed: a norm order that cannot be read as a number fails with
\* the error kind InvalidNormOrder, before any gradient is read and with no
\* report; every other value is accepted.
C6_InvalidNormOrder ==
    Called =>
        IF arg \in Unconvertible
        THEN /\ returned.kind = "raise"
             /\ returned.exc = "InvalidNormOrder"
             /\ returned.report = <<>> /\ returned.read = <<>>
        ELSE returned.kind = "return"

\* C6, amended: such a norm order fails with the exception float() itself
\* raises, ValueError for a string and TypeError for None, before any
\* gradient is read and with no report; every other value is accepted.
C6_ConversionError ==
    Called =>
        IF arg \in Unconvertible
        THEN /\ returned.kind = "raise"
             /\ returned.exc = (IF arg.ty = "str" THEN "ValueError" ELSE "TypeError")
             /\ returned.report = <<>> /\ returned.read = <<>>
        ELSE returned.kind = "return"

\* A call with a non-numeric string on a module that holds gradients.
C6_Witness ==
    /\ arg = StrArg("norm") /\ NGrad >= 1
    /\ returned.kind = "raise"

(***************************************************************************)
(* C7                                                                      *)
(***************************************************************************)

\* C7, as claimed: for every norm order that converts to float, every value
\* of the report is a non-negative real with at most 4 decimal places.
C7_AllValuesRounded ==
    (Called /\ returned.kind = "return")
        => \A i \in DOMAIN returned.report : IsRoundedReal(returned.report[i].val)

\* C7, amended: the same for every norm order that converts to a float
\* other than NaN.
C7_ValuesRoundedUnlessNaN ==
    (Called /\ returned.kind = "return" /\ Order.k # "nan")
        => \A i \in DOMAIN returned.report : IsRoundedReal(returned.report[i].val)

\* A report one of whose norms had digits beyond the fourth decimal place.
C7_Witness ==
    /\ Called /\ returned.kind = "return" /\ Order.k # "nan"
    /\ \E i \in 1..NGrad : OwnNorms[i].m % Quantum # 0
    /\ \A i \in DOMAIN returned.report : IsRoundedReal(returned.report[i].val)

(***************************************************************************)
(* C8                                                                      *)
(***************************************************************************)

\* C8: a call, whether it returns or raises, leaves the module as it was:
\* the same parameters, the same shapes, the same gradients.
C8_ModuleUnchanged == [][arg' # NoArg => module' = module]_vars

\* A call has raised, and the module still holds two gradients.
C8_Witness == Called /\ returned.kind = "raise" /\ NGrad >= 2

(***************************************************************************)
(* C9                                                                      *)
(***************************************************************************)

\* The labels are grad_<order>_norm_<name> for each gradient-bearing
\* parameter and grad_<order>_norm_total, <order> being the float rendered;
\* distinct gradient-bearing parameters have distinct labels.
LabelsAsSpecified ==
    /\ KeySet(returned.report)
         = IF NGrad = 0 THEN {}
           ELSE {LabelText(Order, GradBearing[i]) : i \in 1..NGrad}
                \cup {LabelText(Order, "total")}
    /\ \A i, j \in 1..NGrad :
          i # j => LabelText(Order, GradBearing[i]) # LabelText(Order, GradBearing[j])
    /\ (arg \in {IntArg(2), FloatArg(Fin(0, 2 * Unit)), StrArg("2")} /\ NGrad >= 1)
          => /\ "grad_2.0_norm_total" \in KeySet(returned.report)
             /\ \A k \in KeySet(returned.report) : SubSeq(k, 1, 14) = "grad_2.0_norm_"

\* C9, as claimed: the labels are as specified, and norm orders that denote
\* the same number give reports with identical labels.
C9_SameNumberSameLabels ==
    (Called /\ returned.kind = "return")
        => /\ LabelsAsSpecified
           /\ \A nt \in NormTypes :
                 (ToFloat(nt).ok /\ FloatEq(ToFloat(nt).val, Order))
                    => Keys(grad_norm(module, nt).report) = Keys(returned.report)

\* C9, amended: the labels are as specified, and norm orders that convert
\* to the same float, the sign of a zero included, give reports with
\* identical labels.
C9_SameFloatSameLabels ==
    (Called /\ returned.kind = "return")
        => /\ LabelsAsSpecified
           /\ \A nt \in NormTypes :
                 (ToFloat(nt).ok /\ ToFloat(nt).val = Order)
                    => Keys(grad_norm(module, nt).report) = Keys(returned.report)

\* A call with the string '2' on a module with two gradients.
C9_Witness ==
    /\ arg = StrArg("2") /\ NGrad >= 2
    /\ "grad_2.0_norm_weight" \in KeySet(returned.report)

(***************************************************************************)
(* C10                                                                     *)
(***************************************************************************)

=============================================================================
